---- MODULE Spec2Model ----
(***************************************************************************)
(* A model of duckdb.asyncio: the single-worker task queue (Agent) and the *)
(* AsyncConnection / AsyncCursor facades that route every blocking call on *)
(* the underlying handle through it.                                       *)
(*                                                                         *)
(* asyncio schedules cooperatively: a coroutine runs without interruption  *)
(* from one suspension point to the next.  The awaits that really suspend  *)
(* are `await future` on a pending future, `await self.worker` on a worker *)
(* that has not finished, `await asyncio.sleep(0)` and                     *)
(* `await asyncio.to_thread(...)`.  `await self.queue.put(...)` on the     *)
(* unbounded queue, `await self.queue.get()` on a non-empty queue and      *)
(* `await self._agent.start()` never suspend.  One action of the model is  *)
(* therefore one run of a coroutine between two suspension points.         *)
(***************************************************************************)
EXTENDS Integers, Sequences, FiniteSets, TLC

\* ---------------------------------------------------------------- bounds
NCallers == 2          \* concurrently running caller coroutines
MaxTasks == 2          \* submissions made over a run
MaxWorkers == 2        \* Agent.run tasks created over a run
MaxRows == 250         \* largest result set iterated over

Workers == 1..MaxWorkers

\* ------------------------------------------------------- program constants
BatchSize == 100       \* fetchmany(size=100) in AsyncCursor.__aiter__

\* failures an operation of the underlying handle may raise
Failures == {"E1", "E2"}

\* generated forwarding methods of AsyncConnection; "execute" stands for the
\* hand-written execute / executemany, which call _execute the same way
DelegatedConn == {"execute"}
\* generated forwarding methods of AsyncCursor; its "close" is modelled by
\* CursorClose (func "cclose", the cursor handle's close) and its
\* "fetchmany" by the iteration
DelegatedCursor == {"execute"}

VARIABLES
    running,       \* Agent.running
    worker,        \* Agent.worker: the task last created by start (0 = None)
    queue,         \* Agent.queue: task ids, oldest first
    tfunc,         \* tfunc[t]: the func of the t-th submitted entry
    fut,           \* fut[t]: the future of the t-th submitted entry
    wpc,           \* wpc[w]: where the w-th Agent.run task is suspended
    wtask,         \* wtask[w]: the entry the w-th worker has dequeued (0 = none)
    raised,        \* raised[t]: what func of the t-th entry returned or raised
    frames,        \* the caller coroutines suspended inside an operation
    observed,      \* what future.result() last gave a caller in _execute
    closeInvoked,  \* the connection handle's close has been called
    closed,        \* AsyncConnection.close() has completed
    overlapCall,   \* last call into the handle that a caller's own coroutine
                   \* made while an entry was in flight
    nrows,         \* rows of the result set behind the iterated cursor
    pos,           \* rows the cursor handle has handed out so far
    ipc,           \* where the __aiter__ generator stands
    rows,          \* __aiter__: the batch being handed to the consumer
    yielded,       \* rows the consumer has received, in order
    fetches        \* sizes of the batches fetchmany has returned, in order

avars == <<running, worker, queue, tfunc, fut, raised, wpc, wtask>>
cvars == <<frames, observed>>
hvars == <<closeInvoked, closed, overlapCall>>
ivars == <<nrows, pos, ipc, rows, yielded, fetches>>
vars == <<avars, cvars, hvars, ivars>>

\* ---------------------------------------------------------------- futures
Pending == [st |-> "pending", exc |-> "none", val |-> <<>>]
Ok(v) == [st |-> "ok", exc |-> "none", val |-> v]
Err(e) == [st |-> "err", exc |-> e, val |-> <<>>]
\* a future cancelled with the task that awaited it
Cancelled == [st |-> "cancelled", exc |-> "none", val |-> <<>>]

Resolved(t) == fut[t].st # "pending"

\* a worker whose except clause resolves with a failure of its own instead of
\* the one that was raised
set_outcome_masked(res) == IF res.st = "ok" THEN Ok(res.val) ELSE Err("E1")

\* future.set_result(result) / future.set_exception(e) in Agent.run
set_outcome(res) == IF res.st = "ok" THEN Ok(res.val) ELSE Err(res.exc)

\* future.result(): what the awaiting caller observes
result(f) == IF f.st = "ok" THEN "ok" ELSE f.exc

\* ------------------------------------------------------------------ Agent
NumWorkers == Cardinality({w \in Workers : wpc[w] # "none"})
Live(w) == wpc[w] \in {"new", "sleep", "exec"}
\* the Agent.run task has ended: by leaving the loop ("done") or by an error
\* that escaped from it ("crashed")
Finished(w) == wpc[w] \in {"done", "crashed"}
LiveWorkers == {w \in Workers : Live(w)}
InFlight == {w \in Workers : wpc[w] = "exec"}

\* Agent.__init__
AgentInit ==
    /\ running = FALSE
    /\ worker = 0
    /\ queue = <<>>
    /\ tfunc = <<>>
    /\ fut = <<>>
    /\ wpc = [w \in Workers |-> "none"]
    /\ wtask = [w \in Workers |-> 0]
    /\ raised = <<>>

\* Agent.start
start ==
    IF ~running
    THEN /\ NumWorkers < MaxWorkers
         /\ running' = TRUE
         /\ worker' = NumWorkers + 1
         /\ wpc' = [wpc EXCEPT ![NumWorkers + 1] = "new"]
    ELSE UNCHANGED <<running, worker, wpc>>

\* a submit that enqueues only while the agent is running
submit_running(func) ==
    /\ running
    /\ tfunc' = Append(tfunc, func)
    /\ fut' = Append(fut, Pending)
    /\ raised' = Append(raised, Pending)
    /\ queue' = Append(queue, Len(tfunc) + 1)

\* Agent.submit
submit(func) ==
    /\ tfunc' = Append(tfunc, func)
    /\ fut' = Append(fut, Pending)
    /\ raised' = Append(raised, Pending)
    /\ queue' = Append(queue, Len(tfunc) + 1)

\* Agent.run: one pass of the loop from its head, with the queue as q,
\* up to the worker's next suspension point
run(w, q) ==
    IF ~running /\ q = <<>>
    THEN /\ wpc' = [wpc EXCEPT ![w] = "done"]
         /\ wtask' = [wtask EXCEPT ![w] = 0]
         /\ queue' = q
         /\ UNCHANGED closeInvoked
    ELSE IF running /\ q = <<>>
    THEN /\ wpc' = [wpc EXCEPT ![w] = "sleep"]
         /\ wtask' = [wtask EXCEPT ![w] = 0]
         /\ queue' = q
         /\ UNCHANGED closeInvoked
    ELSE /\ wpc' = [wpc EXCEPT ![w] = "exec"]
         /\ wtask' = [wtask EXCEPT ![w] = Head(q)]
         /\ queue' = Tail(q)
         /\ closeInvoked' = (closeInvoked \/ tfunc[Head(q)] = "close")

\* the event loop runs a worker that was just created or that sleeps
WorkerStep(w) ==
    /\ wpc[w] \in {"new", "sleep"}
    /\ run(w, queue)
    /\ UNCHANGED <<running, worker, tfunc, fut, raised>>
    /\ UNCHANGED <<cvars, closed, overlapCall, ivars>>

\* what the handle's fetchmany(size) returns: the next rows, at most size
fetchmany(size) ==
    [i \in 1..(IF nrows - pos < size THEN nrows - pos ELSE size) |-> pos + i]

\* the bookkeeping field k of the frames, after the futures became f
Owed(fr, f) ==
    [fr EXCEPT !.k = IF \A t \in 1..fr.k : f[t].st # "pending" THEN 0 ELSE fr.k]

\* asyncio.to_thread(func, ...) completes and Agent.run resumes: func has
\* returned res.val or raised res.exc; the worker resolves the future with
\* it, marks the entry done and loops.  On a future that is no longer
\* pending set_result raises InvalidStateError, the except clause catches
\* it, set_exception raises it again and the error ends the run task.
Complete(w, res) ==
    /\ raised' = [raised EXCEPT ![wtask[w]] = res]
    /\ IF fut[wtask[w]].st = "pending"
       THEN /\ fut' = [fut EXCEPT ![wtask[w]] = set_outcome(res)]
            /\ run(w, queue)
       ELSE /\ wpc' = [wpc EXCEPT ![w] = "crashed"]
            /\ wtask' = [wtask EXCEPT ![w] = 0]
            /\ UNCHANGED <<fut, queue, closeInvoked>>

WorkerResume(w) ==
    /\ wpc[w] = "exec"
    /\ \/ /\ tfunc[wtask[w]] # "fetchmany"
          /\ Complete(w, Ok(<<>>))
          /\ UNCHANGED <<pos, fetches>>
       \/ /\ tfunc[wtask[w]] = "fetchmany"
          /\ Complete(w, Ok(fetchmany(BatchSize)))
          /\ pos' = pos + Len(fetchmany(BatchSize))
          /\ fetches' = Append(fetches, Len(fetchmany(BatchSize)))
       \/ /\ \E e \in Failures : Complete(w, Err(e))
          /\ UNCHANGED <<pos, fetches>>
    /\ frames' = {Owed(fr, fut') : fr \in frames}
    /\ UNCHANGED <<running, worker, tfunc>>
    /\ UNCHANGED <<observed, closed, overlapCall, nrows, ipc, rows, yielded>>

\* ---------------------------------------------------------------- callers
(* A suspended caller is a frame: pc is the await it is suspended at, op    *)
(* the operation it is inside, fut the entry whose future it awaits, wait   *)
(* the worker task it awaits in stop.  k is bookkeeping for the entries     *)
(* submitted before that stop call: the youngest of them whose future is    *)
(* still unresolved, 0 once they are all resolved.  A caller that is inside *)
(* no operation has no frame.                                               *)
NoFrame == [pc |-> "idle", op |-> "none", fut |-> 0, wait |-> 0, k |-> 0]

\* some caller coroutine is free to call an operation
Idle == Cardinality(frames) < NCallers

\* the callers make at most MaxTasks submissions over a run
MaySubmit == Idle /\ Len(tfunc) < MaxTasks

\* `await future` on the entry being submitted, inside operation op
AwaitFuture(op) ==
    frames' = frames \cup
        {[pc |-> "await", op |-> op, fut |-> Len(tfunc) + 1, wait |-> 0, k |-> 0]}

\* the youngest entry whose future is unresolved (0 if there is none)
LastPending ==
    IF \A t \in 1..Len(fut) : Resolved(t) THEN 0
    ELSE CHOOSE t \in 1..Len(fut) :
            ~Resolved(t) /\ \A u \in (t + 1)..Len(fut) : Resolved(u)

\* Agent.stop, called from the frame fr inside operation op; the call
\* suspends at pc while the worker has not finished
stop(fr, op, pc) ==
    IF running
    THEN /\ running' = FALSE
         /\ frames' = (frames \ {fr}) \cup
               (IF Live(worker)
                THEN {[pc |-> pc, op |-> op, fut |-> 0, wait |-> worker,
                       k |-> LastPending]}
                ELSE {})
    ELSE /\ UNCHANGED running
         /\ frames' = frames \ {fr}

\* does a call of stop return without suspending?
StopReturnsAtOnce == ~running \/ ~Live(worker)

\* a caller calls Agent.start directly
AgentStart ==
    /\ Idle
    /\ start
    /\ UNCHANGED <<queue, tfunc, fut, raised, wtask, cvars, hvars, ivars>>

\* a caller calls Agent.stop directly
AgentStop ==
    /\ Idle
    /\ stop(NoFrame, "stop", "stopwait")
    /\ UNCHANGED <<worker, queue, tfunc, fut, raised, wpc, wtask>>
    /\ UNCHANGED <<observed, hvars, ivars>>

\* a caller calls Agent.submit directly and does not await the future
AgentSubmit ==
    /\ MaySubmit
    /\ submit("execute")
    /\ UNCHANGED <<running, worker, wpc, wtask, cvars, hvars, ivars>>

\* AsyncConnection.__aenter__
ConnEnter ==
    /\ Idle
    /\ IF ~running THEN start ELSE UNCHANGED <<running, worker, wpc>>
    /\ UNCHANGED <<queue, tfunc, fut, raised, wtask, cvars, hvars, ivars>>

\* AsyncConnection._execute up to `await future`, inside operation op
Conn_execute(op, func) ==
    /\ MaySubmit
    /\ IF ~running THEN start ELSE UNCHANGED <<running, worker, wpc>>
    /\ submit(func)
    /\ AwaitFuture(op)
    /\ UNCHANGED <<wtask, observed, hvars, ivars>>

\* AsyncCursor._execute up to `await future`, inside operation op
Cursor_execute(op, func) ==
    /\ MaySubmit
    /\ submit(func)
    /\ AwaitFuture(op)
    /\ UNCHANGED <<running, worker, wpc, wtask, observed, hvars, ivars>>

\* a forwarding method generated by _make_proxy_method instead, which calls
\* the handle from the caller's coroutine
ConnMethodProxied(func) ==
    /\ Idle
    /\ overlapCall' = IF InFlight # {} THEN func ELSE overlapCall
    /\ UNCHANGED <<avars, cvars, closeInvoked, closed, ivars>>

\* _make_delegate_method on AsyncConnection, and execute / executemany
ConnMethod(func) == Conn_execute("method", func)

\* _make_delegate_method on AsyncCursor
CursorMethod(func) == Cursor_execute("cmethod", func)

\* AsyncCursor.close (generated by _make_delegate_method) up to `await
\* future`: the cursor handle's close is submitted to the shared agent
CursorClose == Cursor_execute("cclose", "cclose")

\* a cursor scope exit that enters the session's _execute, which starts the
\* agent when it is not running
CursorExitOwning == Conn_execute("cexit", "cclose")

\* AsyncCursor.__aexit__, on normal or exceptional exit: `await self.close()`
CursorExit == Cursor_execute("cexit", "cclose")

\* AsyncConnection.close up to its first suspension
ConnClose == Conn_execute("close", "close")

\* AsyncConnection.__aexit__ up to its first suspension
ConnExit == Conn_execute("aexit", "close")

\* a call into the handle made by a caller's own coroutine
Direct(name) ==
    /\ overlapCall' = IF InFlight # {} THEN name ELSE overlapCall
    /\ UNCHANGED <<avars, cvars, closeInvoked, closed, ivars>>

\* AsyncConnection.cursor: self._connection.cursor(); AsyncCursor.__init__
\* without a cursor makes the same call
ConnCursor == Idle /\ Direct("cursor")

\* the rowcount property of AsyncConnection (_make_proxy_property)
Rowcount == Idle /\ Direct("rowcount")

\* the task of a caller suspended at `await future` is cancelled before the
\* future is resolved: the task cancels the future it waits for, and
\* CancelledError leaves _execute and the operation around it
Cancel(fr) ==
    /\ fr.pc = "await"
    /\ ~Resolved(fr.fut)
    /\ fut' = [fut EXCEPT ![fr.fut] = Cancelled]
    /\ frames' = {Owed(g, fut') : g \in frames \ {fr}}
    /\ UNCHANGED <<running, worker, queue, tfunc, raised, wpc, wtask>>
    /\ UNCHANGED <<observed, hvars, ivars>>

\* _execute resumes from `await future`: future.result() returns or raises;
\* close and __aexit__ go on to stop the agent when the handle's close
\* returned
Resume(fr) ==
    /\ fr.pc = "await" /\ fr.op # "iter"
    /\ Resolved(fr.fut)
    /\ observed' = result(fut[fr.fut])
    /\ IF fr.op \in {"close", "aexit"} /\ fut[fr.fut].st = "ok"
       THEN /\ stop(fr, fr.op, IF fr.op = "aexit" THEN "stopwait_close"
                                                  ELSE "stopwait")
            /\ closed' = (closed \/ ~running \/ wpc[worker] = "done")
       ELSE /\ frames' = frames \ {fr}
            /\ UNCHANGED <<running, closed>>
    /\ UNCHANGED <<worker, queue, tfunc, fut, raised, wpc, wtask>>
    /\ UNCHANGED <<closeInvoked, overlapCall, ivars>>

\* Agent.stop resumes from `await self.worker`, and its caller returns; the
\* await re-raises the error of a worker task that ended with one
StopReturn(fr) ==
    /\ fr.pc = "stopwait"
    /\ Finished(fr.wait)
    /\ frames' = frames \ {fr}
    /\ closed' = (closed \/ (fr.op = "close" /\ wpc[fr.wait] = "done"))
    /\ UNCHANGED <<avars, observed, closeInvoked, overlapCall, ivars>>

\* inside __aexit__: close's stop resumes, close returns, and __aexit__
\* stops the agent if it is running
ExitStopAgain(fr) ==
    /\ fr.pc = "stopwait_close"
    /\ Finished(fr.wait)
    /\ IF wpc[fr.wait] = "done"
       THEN /\ closed' = TRUE
            /\ stop(fr, "aexit", "stopwait")
       ELSE /\ frames' = frames \ {fr}
            /\ UNCHANGED <<running, closed>>
    /\ UNCHANGED <<worker, queue, tfunc, fut, raised, wpc, wtask>>
    /\ UNCHANGED <<observed, closeInvoked, overlapCall, ivars>>

\* -------------------------------------------------------------- iteration
\* a generator that ends the iteration at the first batch that is not full
exhausted_short(batch) == Len(batch) < BatchSize

\* AsyncCursor.__aiter__: `if not rows`
exhausted(batch) == batch = <<>>

\* a generator that requests the next batch as soon as it is advanced,
\* whether or not rows of the current batch remain
IterFetchEager ==
    /\ ipc \in {"ready", "yielded"}
    /\ Idle
    /\ submit("fetchmany")
    /\ AwaitFuture("iter")
    /\ ipc' = "fetching"
    /\ UNCHANGED <<running, worker, wpc, wtask, observed, hvars>>
    /\ UNCHANGED <<nrows, pos, rows, yielded, fetches>>

\* __aiter__ is advanced and reaches `await self.fetchmany(size=100)`: the
\* generated method submits the fetch through AsyncCursor._execute
IterFetch ==
    /\ ipc = "ready" \/ (ipc = "yielded" /\ rows = <<>>)
    /\ Idle
    /\ submit("fetchmany")
    /\ AwaitFuture("iter")
    /\ ipc' = "fetching"
    /\ UNCHANGED <<running, worker, wpc, wtask, observed, hvars>>
    /\ UNCHANGED <<nrows, pos, rows, yielded, fetches>>

\* the fetch resumes: it raises, or its batch is empty and the generator
\* returns, or the generator yields the first row of the batch
IterResume(fr) ==
    /\ fr.pc = "await" /\ fr.op = "iter"
    /\ Resolved(fr.fut)
    /\ frames' = frames \ {fr}
    /\ observed' = result(fut[fr.fut])
    /\ IF fut[fr.fut].st = "err"
       THEN ipc' = "raised" /\ UNCHANGED <<rows, yielded>>
       ELSE IF exhausted(fut[fr.fut].val)
       THEN ipc' = "returned" /\ UNCHANGED <<rows, yielded>>
       ELSE /\ ipc' = "yielded"
            /\ yielded' = Append(yielded, Head(fut[fr.fut].val))
            /\ rows' = Tail(fut[fr.fut].val)
    /\ UNCHANGED <<avars, hvars, nrows, pos, fetches>>

\* __aiter__ is advanced inside `for row in rows`: it yields the next row
IterNext ==
    /\ ipc = "yielded" /\ rows # <<>>
    /\ yielded' = Append(yielded, Head(rows))
    /\ rows' = Tail(rows)
    /\ UNCHANGED <<avars, cvars, hvars, nrows, pos, ipc, fetches>>

\* --------------------------------------------------------- specification
Init ==
    /\ AgentInit
    /\ frames = {}
    /\ observed = "none"
    /\ closeInvoked = FALSE
    /\ closed = FALSE
    /\ overlapCall = "none"
    /\ nrows = 0
    /\ pos = 0
    /\ ipc = "none"
    /\ rows = <<>>
    /\ yielded = <<>>
    /\ fetches = <<>>

Next ==
    \/ \E w \in Workers : WorkerStep(w)
    \/ \E w \in Workers : WorkerResume(w)
    \/ AgentStart
    \/ AgentStop
    \/ AgentSubmit
    \/ ConnEnter
    \/ \E f \in DelegatedConn : ConnMethod(f)
    \/ \E f \in DelegatedCursor : CursorMethod(f)
    \/ ConnClose
    \/ ConnExit
    \/ \E fr \in frames : Resume(fr)
    \/ \E fr \in frames : StopReturn(fr)
    \/ \E fr \in frames : ExitStopAgain(fr)

Spec == Init /\ [][Next]_vars

\* the same program with the callers also making the calls that the facade
\* passes to the handle from their own coroutine
NextFacade ==
    \/ Next
    \/ ConnCursor
    \/ Rowcount

SpecFacade == Init /\ [][NextFacade]_vars

\* a session and one of its cursors: the cursor's methods, its close and its
\* scope exit, next to the session's scope entry and close
NextCursor ==
    \/ \E w \in Workers : WorkerStep(w)
    \/ \E w \in Workers : WorkerResume(w)
    \/ ConnEnter
    \/ \E f \in DelegatedCursor : CursorMethod(f)
    \/ CursorClose
    \/ CursorExit
    \/ ConnClose
    \/ \E fr \in frames : Resume(fr)
    \/ \E fr \in frames : StopReturn(fr)

SpecCursor == Init /\ [][NextCursor]_vars

\* the same program with callers whose tasks may be cancelled while they
\* await a future
NextCancel ==
    \/ Next
    \/ \E fr \in frames : Cancel(fr)

SpecCancel == Init /\ [][NextCancel]_vars

\* one cursor over a result set of nrows rows, iterated with `async for`
\* inside the session's scope
InitIter ==
    /\ AgentInit
    /\ frames = {}
    /\ observed = "none"
    /\ closeInvoked = FALSE
    /\ closed = FALSE
    /\ overlapCall = "none"
    /\ nrows \in 0..MaxRows
    /\ pos = 0
    /\ ipc = "ready"
    /\ rows = <<>>
    /\ yielded = <<>>
    /\ fetches = <<>>

NextIter ==
    \/ \E w \in Workers : WorkerStep(w)
    \/ \E w \in Workers : WorkerResume(w)
    \/ ConnEnter
    \/ IterFetch
    \/ \E fr \in frames : IterResume(fr)
    \/ IterNext

SpecIter == InitIter /\ [][NextIter]_vars

\* event-loop and thread-pool fairness: a worker that can run is run, and
\* an operation handed to a thread finishes
Fairness ==
    \A w \in Workers : WF_vars(WorkerStep(w)) /\ WF_vars(WorkerResume(w))

FairSpec == Spec /\ Fairness

\* the event loop resumes a caller whose future is resolved or whose awaited
\* worker task has ended
CallerFairness ==
    /\ WF_vars(\E fr \in frames : Resume(fr))
    /\ WF_vars(\E fr \in frames : StopReturn(fr))
    /\ WF_vars(\E fr \in frames : ExitStopAgain(fr))

LiveSpec == Spec /\ Fairness /\ CallerFairness

\* ------------------------------------------------------------ properties
TypeOK ==
    /\ running \in BOOLEAN
    /\ worker \in 0..MaxWorkers
    /\ Len(fut) = Len(tfunc) /\ Len(raised) = Len(tfunc)
    /\ \A i \in 1..Len(queue) : queue[i] \in 1..Len(tfunc)
    /\ \A w \in Workers :
          wpc[w] \in {"none", "new", "sleep", "exec", "done", "crashed"}
    /\ \A w \in Workers : (wpc[w] = "exec") = (wtask[w] # 0)
    /\ Cardinality(frames) <= NCallers
    /\ observed \in {"none", "ok"} \cup Failures

\* C1: at most one entry is in flight (dequeued by Agent.run, its future not
\* yet resolved) at any instant, under every interleaving of the callers.
C1_AtMostOneInFlight == Cardinality(InFlight) <= 1

\* C2: futures are resolved in submission order: when the future of an
\* entry is resolved, the futures of all entries submitted before it are
\* resolved already.
C2_FifoResolution ==
    [][\A t \in 1..Len(fut) :
          (~Resolved(t) /\ fut'[t].st # "pending")
              => \A u \in 1..(t - 1) : Resolved(u)]_vars

\* a call of stop that had suspended returns in this step
StopReturns(fr) ==
    /\ fr \in frames
    /\ fr.pc \in {"stopwait", "stopwait_close"}
    /\ ~\E g \in frames' : g.pc = fr.pc /\ g.wait = fr.wait

\* C3: when a stop() call made on a running agent returns, the futures of
\* all K entries submitted before that call are resolved (fr.k is the
\* youngest of them that is still unresolved) and the worker has exited.
C3_StopDrains ==
    [][\A fr \in frames :
          StopReturns(fr)
              => fr.k = 0 /\ wpc'[fr.wait] = "done"]_vars

NumExit(fs) == Cardinality({fr \in fs : fr.op = "aexit"})

\* C6: when AsyncConnection.__aexit__ finishes, by returning or by raising,
\* the handle's close has been invoked and the agent is stopped: running is
\* false and no worker loop is left.
C6_ScopedExit ==
    [][NumExit(frames') < NumExit(frames)
          => closeInvoked' /\ ~running' /\ {w \in Workers : Live(w)'} = {}]_vars

\* C7: a forwarded method called on a session or on a cursor starts the
\* agent if it is not running, so a caller that awaits an unresolved future
\* always has a worker loop that will serve it.
C7_LazyStart ==
    \A fr \in frames :
        (fr.pc = "await" /\ ~Resolved(fr.fut)) => LiveWorkers # {}

\* a caller enters _execute of the session or of one of its cursors
CallsExecute == \E fr \in frames' \ frames : fr.pc = "await"

\* C8: once AsyncConnection.close() has completed, no later call on the
\* session or its cursors (a forwarded method, execute, executemany, a
\* second close) sets running back to true or launches a new worker loop.
C8_RetiredAfterClose ==
    [][(closed /\ CallsExecute) => (running' = running) /\ (wpc' = wpc)]_vars

\* C9: at every instant at most one worker loop that has not exited exists.
C9_SingleWorker == Cardinality(LiveWorkers) <= 1

\* what a caller must see of an entry whose func returned or raised res
Seen(res) == IF res.st = "ok" THEN "ok" ELSE res.exc

\* C4: error pass-through.  The future of an entry is resolved with exactly
\* what its func returned or raised, and the caller awaiting it in _execute
\* observes exactly that; a worker that resolves a failure does not exit
\* unless the agent is stopped and the queue is empty, and goes straight on
\* to the oldest queued entry if there is one; and as long as a worker loop
\* is alive the entries submitted, before or after a failure, all come to be
\* resolved.
C4_ErrorPassThrough ==
    /\ [](\A t \in 1..Len(fut) : Resolved(t) => fut[t] = raised[t])
    /\ [][\A fr \in frames :
             (fr.pc = "await" /\ fr \notin frames')
                 => observed' = Seen(raised[fr.fut])]_vars
    /\ [][\A w \in Workers :
             (wpc[w] = "exec" /\ raised'[wtask[w]].st = "err")
                 => /\ fut'[wtask[w]] = Err(raised'[wtask[w]].exc)
                    /\ wpc'[w] = "done" => (~running /\ queue = <<>>)
                    /\ queue # <<>> => (wpc'[w] = "exec" /\ wtask'[w] = Head(queue))]_vars
    /\ []<>(LiveWorkers = {} \/ \A t \in 1..Len(fut) : Resolved(t))

\* an operation raised E2, its caller saw E2 re-raised, and an entry
\* submitted after it was executed and resolved with its value
C4_Witness ==
    \E t \in 1..Len(fut) : \E u \in 1..Len(fut) :
        /\ t < u
        /\ raised[t] = Err("E2") /\ fut[t] = Err("E2")
        /\ observed = "E2"
        /\ raised[u].st = "ok" /\ fut[u].st = "ok"
        /\ Cardinality(LiveWorkers) = 1

\* C5 (as stated): no call into the handle is made from a caller's own
\* coroutine while an entry of the agent is in flight, except the read of
\* the rowcount property.
C5_OnlyRowcountDirect == overlapCall \in {"none", "rowcount"}

\* C5 (amended): the calls into the handle made from a caller's own
\* coroutine while an entry is in flight are the rowcount read and the
\* cursor() call that derives a cursor handle; every forwarded method,
\* execute, executemany and close in progress is an entry submitted to the
\* agent.
C5_DirectCallsAmended ==
    /\ overlapCall \in {"none", "rowcount", "cursor"}
    /\ \A fr \in frames :
          fr.pc = "await"
              => /\ fr.fut \in 1..Len(tfunc)
                 /\ tfunc[fr.fut] \in DelegatedConn \cup DelegatedCursor \cup {"close"}

\* a cursor handle is derived while an entry is executing, and a forwarded
\* method is waiting for its own entry
C5_Witness ==
    /\ overlapCall = "cursor"
    /\ InFlight # {}
    /\ \E fr \in frames : fr.pc = "await" /\ fr.op = "method"

\* the batch sizes that a result set of n rows is fetched in, the last one
\* the empty batch
Ceil(n) == (n + BatchSize - 1) \div BatchSize
BatchSizes(n) ==
    [i \in 1..(Ceil(n) + 1) |->
        IF i * BatchSize <= n THEN BatchSize
        ELSE IF (i - 1) * BatchSize < n THEN n - (i - 1) * BatchSize
        ELSE 0]

\* C10: iterating a cursor over N rows yields exactly rows 1..N, in order
\* and each once, from batches of BatchSize rows (the last one shorter);
\* the iteration ends at the first empty batch and no fetch is submitted
\* after it.
C10_BatchedIteration ==
    /\ \A i \in 1..Len(yielded) : yielded[i] = i
    /\ Len(yielded) + Len(rows) = pos \/ ipc = "fetching"
    /\ \A i \in 1..Len(fetches) : fetches[i] = BatchSizes(nrows)[i]
    /\ ipc = "returned"
          => /\ yielded = [i \in 1..nrows |-> i]
             /\ fetches = BatchSizes(nrows)
             /\ Len(tfunc) = Len(fetches)
             /\ queue = <<>> /\ InFlight = {}

\* 250 rows were yielded from batches of 100, 100, 50 and the iteration
\* ended on the empty fourth batch
C10_Witness ==
    /\ ipc = "returned"
    /\ nrows = 250
    /\ Len(yielded) = 250
    /\ fetches = <<100, 100, 50, 0>>
    /\ Len(tfunc) = 4

\* the agent's running flag and its worker tasks are left as they are
AgentUntouched == running' = running /\ worker' = worker /\ wpc' = wpc

\* C11: AsyncCursor.close and AsyncCursor.__aexit__ submit the cursor
\* handle's close as one entry at the tail of the shared agent's queue, and
\* neither that call nor its return changes the agent's running flag or its
\* worker: a cursor starts no worker and does not stop the session's agent.
C11_CursorCloseFrame ==
    /\ [][\A fr \in frames' \ frames :
             fr.op \in {"cclose", "cexit"}
                 => /\ AgentUntouched
                    /\ tfunc' = Append(tfunc, "cclose")
                    /\ queue' = Append(queue, fr.fut)
                    /\ fr.fut = Len(tfunc')]_vars
    /\ [][\A fr \in frames \ frames' :
             fr.op \in {"cclose", "cexit"}
                 => AgentUntouched /\ queue' = queue]_vars
    /\ [][Len(tfunc') > Len(tfunc) /\ tfunc'[Len(tfunc')] = "cclose"
             => AgentUntouched]_vars

\* a cursor's close went through the running agent and returned to its
\* caller, and the session's agent is still running with its one worker
C11_Witness ==
    /\ \E t \in 1..Len(tfunc) :
          /\ tfunc[t] = "cclose" /\ fut[t].st = "ok"
          /\ ~\E fr \in frames : fr.fut = t
    /\ running /\ Live(worker) /\ NumWorkers = 1

\* C18: the worker loop survives an abandoned wait: handling an entry whose
\* future was cancelled with its awaiting caller lets no error escape, so no
\* Agent.run task is ever ended by an error.
C18_SurvivesCancelledWait == \A w \in Workers : wpc[w] # "crashed"

\* the worker w ends its handling of the entry it had dequeued in this step
Handles(w) == wpc[w] = "exec" /\ (wpc'[w] # "exec" \/ wtask'[w] # wtask[w])

\* C12: the future of every entry is written exactly once, by the worker
\* that dequeued the entry, with what its func returned or raised: a future
\* changes only from pending, only in that worker's handling of it, and a
\* worker never writes to a future that is no longer pending.
C12_SingleAssignment ==
    /\ [][\A t \in 1..Len(fut) :
             fut'[t] # fut[t]
                 => /\ fut[t] = Pending
                    /\ \E w \in Workers : Handles(w) /\ wtask[w] = t
                    /\ fut'[t] = set_outcome(raised'[t])]_vars
    /\ [][\A w \in Workers : Handles(w) => fut[wtask[w]] = Pending]_vars

\* C14: an Agent.run task ends only from the idle-empty state: at the
\* moment a worker loop stops being alive, running is false and the queue
\* is empty.
C14_ExitOnlyIdleEmpty ==
    [][\A w \in Workers :
          (Live(w) /\ ~Live(w)') => (~running /\ queue = <<>>)]_vars

\* C13: submit never fails and never waits for the agent: whatever the
\* state of the agent (never started, running, stop in progress, stopped) a
\* caller's submit is possible, it appends exactly one entry with a fresh
\* pending future at the tail of the queue, leaves the older entries, the
\* running flag and the worker as they are, and the future it returns is
\* still unresolved.
C13_SubmitUnconditional ==
    /\ [](MaySubmit => ENABLED AgentSubmit)
    /\ [][Len(tfunc') # Len(tfunc)
             => /\ Len(tfunc') = Len(tfunc) + 1
                /\ tfunc' = Append(tfunc, tfunc'[Len(tfunc')])
                /\ fut' = Append(fut, Pending)
                /\ queue' = Append(queue, Len(tfunc'))]_vars
    /\ [][(Len(tfunc') # Len(tfunc) /\ frames' = frames)
             => AgentUntouched /\ wtask' = wtask]_vars

\* an entry was submitted to an agent that had been stopped and whose worker
\* had exited: it stays queued with its future pending, nothing was started
C13_Witness ==
    /\ ~running /\ worker # 0 /\ LiveWorkers = {}
    /\ queue # <<>>
    /\ \A i \in 1..Len(queue) : fut[queue[i]] = Pending

\* a caller is inside an operation of the session (a forwarded method,
\* execute, executemany, close or the scope exit)
InSessionCall == \E fr \in frames : fr.op \in {"method", "close", "aexit"}

\* C15: under fair scheduling, with operations that terminate, every call of
\* a session operation returns or raises: again and again no caller is
\* inside a session operation.
C15_SessionCallsReturn == []<>(~InSessionCall)

\* C16: under fair scheduling, with operations that terminate and finitely
\* many submissions, every stop() call made on a running agent returns:
\* again and again no caller is suspended inside stop.
C16_StopTerminates ==
    []<>(\A fr \in frames : fr.pc \notin {"stopwait", "stopwait_close"})

\* the fetches submitted by the iterator whose future is unresolved
PendingFetches == {t \in 1..Len(tfunc) : tfunc[t] = "fetchmany" /\ ~Resolved(t)}

\* the rows of a fetched batch that the generator has not yet picked up
Arrived ==
    IF \E fr \in frames : fr.op = "iter" /\ fut[fr.fut].st = "ok"
    THEN Len(fut[(CHOOSE fr \in frames : fr.op = "iter").fut].val)
    ELSE 0

\* C17: iteration pulls one batch at a time: a fetch is outstanding only
\* when every row fetched before it has been handed to the consumer, at most
\* one fetch is queued or in flight, at most one batch of BatchSize rows is
\* held unconsumed, and a consumer holding j >= 1 rows has caused exactly
\* ceil(j / BatchSize) fetches (one more only once it asks for row j + 1).
C17_Backpressure ==
    /\ Cardinality(PendingFetches) <= 1
    /\ Cardinality({fr \in frames : fr.op = "iter"}) <= 1
    /\ ipc = "fetching" => rows = <<>>
    /\ PendingFetches # {} => (ipc = "fetching" /\ Len(yielded) = pos)
    /\ Len(rows) + Arrived <= BatchSize
    /\ Len(yielded) + Len(rows) + Arrived = pos
    /\ ipc = "yielded" => Len(tfunc) = Ceil(Len(yielded))
    /\ Len(tfunc) <= Ceil(Len(yielded)) + 1

\* the consumer of a 250-row cursor holds 150 rows: two fetches were made,
\* 50 rows of the second batch wait in the generator, no third fetch exists
C17_Witness ==
    /\ nrows = 250 /\ ipc = "yielded"
    /\ Len(yielded) = 150 /\ Len(rows) = 50
    /\ Len(tfunc) = 2 /\ PendingFetches = {}

\* C19: the connection handle's close runs as an ordinary queued entry:
\* while it executes, no other entry of the agent is in flight and every
\* entry submitted before it has finished executing.
C19_CloseOrdering ==
    \A w \in InFlight :
        tfunc[wtask[w]] = "close"
            => /\ InFlight = {w}
               /\ \A u \in 1..(wtask[w] - 1) : Resolved(u)

====
